---- MODULE Spec2Model ----
(***************************************************************************)
(* Model of database/gdb/gdb_core_transaction.go: the transaction handle   *)
(* TX, its save-point nesting protocol (Begin/Commit/Rollback), the        *)
(* context binding (WithTX/TXFromCtx) and the two unit-of-work executors   *)
(* Core.Transaction and TX.Transaction.                                    *)
(*                                                                         *)
(* A run is one goroutine of user code.  User code calls Core.Transaction; *)
(* the callback f it supplies is an arbitrary program, so every call f can *)
(* make on the handle or on the database object is an action whose inputs  *)
(* (contexts, driver outcomes, returned errors, panic payloads) are chosen *)
(* from small sets.                                                        *)
(***************************************************************************)
EXTENDS Integers, Sequences, FiniteSets, TLC

\* ------------------------------------------------------------------ bounds
MaxDepth == 3
MaxOps == 3
MaxHandles == 2
MaxFaults == 1
MaxLayers == 3
MaxRaceOps == 4
MaxNested == 1

\* --------------------------------------------------- constants of the code
transactionPointerPrefix == "transaction"
contextTransactionKeyPrefix == "TransactionObjectForGroup_"
transactionIdForLoggerCtx == "TransactionId"

\* ------------------------------------------------------------------ errors
\* A Go error value: nil, or a non-nil error with its message.
NilErr == [nil |-> TRUE, msg |-> ""]
Err(m) == [nil |-> FALSE, msg |-> m]

\* database/sql: every use of a *sql.Tx after Commit/Rollback fails with this.
ErrTxDone == Err("sql: transaction has already been committed or rolled back")

\* The error the driver reports for a failing statement.
DriverErr(sql) == Err("driver: " \o sql)

\* Errors the callback f can return of its own.
FnErrors == {Err("E")}

\* Non-nil values f can panic with.
Payloads == {[type |-> "int", s |-> "", i |-> 42]}

NoPayload == [type |-> "string", s |-> "", i |-> 0]

\* The value of the panic context.WithValue raises for a nil parent.
NilParent ==
    [type |-> "string", s |-> "cannot create context from nil parent", i |-> 0]

\* panic(nil): recover() returns nil in a build with the semantics before
\* Go 1.21 (GODEBUG panicnil=1), and a *runtime.PanicNilError otherwise.
NilPayload == [type |-> "nil", s |-> "", i |-> 0]

PanicNilError ==
    [type |-> "PanicNilError",
     s |-> "panic called with nil argument (obsolete)", i |-> 0]

Builds == {"panicnil=1", "panicnil=0"}

\* The value recover() returns for a panic with payload p in build b.
Recover(p, b) == IF p = NilPayload /\ b = "panicnil=0" THEN PanicNilError ELSE p

\* fmt.Errorf("%v", e): an error whose message is the formatted payload
\* ("<nil>" for a nil operand).
Errorf(e) ==
    Err(IF e.type = "int" THEN ToString(e.i)
        ELSE IF e.type = "nil" THEN "<nil>" ELSE e.s)

\* ---------------------------------------------------------------- contexts
\* A context.Context is a chain of key/value layers, innermost last.
Background == << >>
NilCtx == << [key |-> "<nil>", val |-> 0] >>
WithValue(ctx, k, v) == Append(ctx, [key |-> k, val |-> v])

RECURSIVE Value(_, _)
Value(ctx, k) ==
    IF ctx = << >> THEN 0
    ELSE IF ctx[Len(ctx)].key = k THEN ctx[Len(ctx)].val
    ELSE Value(SubSeq(ctx, 1, Len(ctx) - 1), k)

Groups == {"g1"}

transactionKeyForContext(group) == contextTransactionKeyPrefix \o group

\* ------------------------------------------------------------------- state
VARIABLES
    txs,      \* the TX objects ever created: db, ctx, transactionCount
    raw,      \* the *sql.Tx of each TX: done flag, Commit/Rollback invocations
    trace,    \* every statement handed to the driver, in order
    idGen,    \* transactionIdGenerator
    stack,    \* the goroutine's stack of running Transaction calls
    ret,      \* the outcome of the Transaction call that returned last
    call,     \* the call user code made last, with its arguments and result
    ops,      \* number of calls user code has made so far (those of panic
              \* and runtime.Goexit included)
    faults,   \* number of failures the driver has reported so far
    held,     \* the handles Core.Begin returned to user code
    build     \* what recover() returns for panic(nil), once a run has shown it

vars == <<txs, raw, trace, idGen, stack, ret, call, ops, faults, held, build>>

\* The mutable objects the functions of the file read and write.
World == [txs |-> txs, raw |-> raw, trace |-> trace, idGen |-> idGen]

Install(w) ==
    /\ txs' = w.txs
    /\ raw' = w.raw
    /\ trace' = w.trace
    /\ idGen' = w.idGen

Stmt(op, arg, h, err, w) ==
    [op |-> op, arg |-> arg, h |-> h, err |-> err,
     cnt |-> IF h = 0 THEN 0 ELSE w.txs[h].transactionCount,
     done |-> IF h = 0 THEN FALSE ELSE w.raw[h].done]

SqlText(e) == IF e.arg = "" THEN e.op ELSE e.op \o " " \o e.arg

\* ------------------------------------------------------- context binding
\* Variant: the lookup returns the handle and leaves its context alone.
TXFromCtx_KeepCtx(w, ctx, group) ==
    IF ctx = NilCtx THEN [w |-> w, tx |-> 0]
    ELSE [w |-> w, tx |-> Value(ctx, transactionKeyForContext(group))]

\* Variant: the lookup never finds a handle.
TXFromCtx_Absent(w, ctx, group) == [w |-> w, tx |-> 0]

TXFromCtx(w, ctx, group) ==
    IF ctx = NilCtx THEN [w |-> w, tx |-> 0]
    ELSE LET v == Value(ctx, transactionKeyForContext(group)) IN
         IF v # 0
         THEN [w |-> [w EXCEPT !.txs[v].ctx = ctx], tx |-> v]
         ELSE [w |-> w, tx |-> 0]

\* Variant: the handle is injected without the checks for a repeat injection.
WithTX_AlwaysWrap(w, ctx, tx) ==
    IF tx = 0 THEN [w |-> w, ctx |-> ctx, panic |-> FALSE]
    ELSE [w |-> w,
          ctx |-> IF ctx = NilCtx THEN ctx
                  ELSE WithValue(ctx, transactionKeyForContext(w.txs[tx].db.group),
                                 tx),
          panic |-> ctx = NilCtx]

\* WithTX returns a context, or panics: context.WithValue (line 152) panics
\* with NilParent when its parent context is nil.
WithTX(w, ctx, tx) ==
    IF tx = 0 THEN [w |-> w, ctx |-> ctx, panic |-> FALSE]
    ELSE LET group == w.txs[tx].db.group
             r1 == TXFromCtx(w, ctx, group)
             dbCtx == w.txs[tx].db.ctx
             r2 == TXFromCtx(r1.w, dbCtx, group)
         IN  IF r1.tx # 0 /\ r1.w.txs[r1.tx].db.group = group
             THEN [w |-> r1.w, ctx |-> ctx, panic |-> FALSE]
             ELSE IF r2.tx # 0 /\ r2.w.txs[r2.tx].db.group = group
             THEN [w |-> r2.w, ctx |-> dbCtx, panic |-> FALSE]
             ELSE IF ctx = NilCtx
             THEN [w |-> r2.w, ctx |-> ctx, panic |-> TRUE]
             ELSE [w |-> r2.w,
                   ctx |-> WithValue(ctx, transactionKeyForContext(group), tx),
                   panic |-> FALSE]

\* ------------------------------------------------------ transaction handle
\* Core.QuoteWord with the quote characters of the PostgreSQL driver.
QuoteWord(s) == "\"" \o s \o "\""

\* Variant: the name is formed from the counter plus one.
transactionKeyForNestedPoint_NextCount(w, tx) ==
    QuoteWord(transactionPointerPrefix
                  \o ToString(w.txs[tx].transactionCount + 1))

transactionKeyForNestedPoint(w, tx) ==
    QuoteWord(transactionPointerPrefix \o ToString(w.txs[tx].transactionCount))

\* TX.Ctx: the handle works on ctx from now on (nil included).
TXCtx(w, tx, ctx) == [w |-> [w EXCEPT !.txs[tx].ctx = ctx], err |-> NilErr]

\* Variant: a failing statement rolls the physical transaction back.
TXExec_RollbackOnFailure(w, tx, op, arg, ok) ==
    LET err == IF w.raw[tx].done THEN ErrTxDone
               ELSE IF ok THEN NilErr
               ELSE DriverErr(SqlText([op |-> op, arg |-> arg]))
        w1 == [w EXCEPT !.trace = Append(@, Stmt(op, arg, tx, err, w))]
    IN  [w |-> IF err.nil THEN w1
               ELSE [w1 EXCEPT !.raw[tx].done = TRUE,
                               !.raw[tx].rollbacks = @ + 1,
                               !.txs[tx].transactionCount = 0],
         err |-> err]

\* TX.Exec: the statement runs on the owned *sql.Tx; ok is the driver's verdict.
TXExec(w, tx, op, arg, ok) ==
    LET err == IF w.raw[tx].done THEN ErrTxDone
               ELSE IF ok THEN NilErr
               ELSE DriverErr(SqlText([op |-> op, arg |-> arg]))
    IN  [w |-> [w EXCEPT !.trace = Append(@, Stmt(op, arg, tx, err, w))],
         err |-> err]

\* sql.Tx.Commit / sql.Tx.Rollback as called by TX.Commit / TX.Rollback.
RawFinish(w, tx, op, ok) ==
    LET err == IF w.raw[tx].done THEN ErrTxDone
               ELSE IF ok THEN NilErr ELSE DriverErr(op)
        fld == IF op = "COMMIT" THEN "commits" ELSE "rollbacks"
    IN  [w |-> [w EXCEPT !.trace = Append(@, Stmt(op, "", tx, err, w)),
                         !.raw[tx].done = TRUE,
                         !.raw[tx][fld] = @ + 1],
         err |-> err]

\* Variant: the save point is named from the counter before the decrement.
TXCommit_PreDecrementName(w, tx, ok) ==
    IF w.txs[tx].transactionCount > 0
    THEN LET w1 == [w EXCEPT !.txs[tx].transactionCount = @ - 1]
             r == TXExec(w, tx, "RELEASE SAVEPOINT",
                         transactionKeyForNestedPoint(w, tx), ok)
         IN  [w |-> [w1 EXCEPT !.trace = r.w.trace], err |-> r.err]
    ELSE RawFinish(w, tx, "COMMIT", ok)

\* Variant: the counter is put back when RELEASE SAVEPOINT fails.
TXCommit_RestoreOnFailure(w, tx, ok) ==
    IF w.txs[tx].transactionCount > 0
    THEN LET w1 == [w EXCEPT !.txs[tx].transactionCount = @ - 1]
             r == TXExec(w1, tx, "RELEASE SAVEPOINT",
                         transactionKeyForNestedPoint(w1, tx), ok)
         IN  IF r.err.nil THEN r
             ELSE [w |-> [r.w EXCEPT !.txs[tx].transactionCount = @ + 1],
                   err |-> r.err]
    ELSE RawFinish(w, tx, "COMMIT", ok)

TXCommit(w, tx, ok) ==
    IF w.txs[tx].transactionCount > 0
    THEN LET w1 == [w EXCEPT !.txs[tx].transactionCount = @ - 1]
         IN  TXExec(w1, tx, "RELEASE SAVEPOINT",
                    transactionKeyForNestedPoint(w1, tx), ok)
    ELSE RawFinish(w, tx, "COMMIT", ok)

\* Variant: a handle whose *sql.Tx is finished is not rolled back again.
TXRollback_SkipWhenDone(w, tx, ok) ==
    IF w.txs[tx].transactionCount > 0
    THEN LET w1 == [w EXCEPT !.txs[tx].transactionCount = @ - 1]
         IN  TXExec(w1, tx, "ROLLBACK TO SAVEPOINT",
                    transactionKeyForNestedPoint(w1, tx), ok)
    ELSE IF w.raw[tx].done THEN [w |-> w, err |-> NilErr]
    ELSE RawFinish(w, tx, "ROLLBACK", ok)

\* Variant: the counter is decremented without the test for > 0.
TXRollback_NoGuard(w, tx, ok) ==
    LET w1 == [w EXCEPT !.txs[tx].transactionCount = @ - 1]
    IN  TXExec(w1, tx, "ROLLBACK TO SAVEPOINT",
               QuoteWord(transactionPointerPrefix), ok)

TXRollback(w, tx, ok) ==
    IF w.txs[tx].transactionCount > 0
    THEN LET w1 == [w EXCEPT !.txs[tx].transactionCount = @ - 1]
         IN  TXExec(w1, tx, "ROLLBACK TO SAVEPOINT",
                    transactionKeyForNestedPoint(w1, tx), ok)
    ELSE RawFinish(w, tx, "ROLLBACK", ok)

\* Variant: the counter is incremented even when SAVEPOINT fails.
TXBegin_CountOnFailure(w, tx, ok) ==
    LET r == TXExec(w, tx, "SAVEPOINT", transactionKeyForNestedPoint(w, tx), ok)
    IN  [w |-> [r.w EXCEPT !.txs[tx].transactionCount = @ + 1], err |-> r.err]

TXBegin(w, tx, ok) ==
    LET r == TXExec(w, tx, "SAVEPOINT", transactionKeyForNestedPoint(w, tx), ok)
    IN  IF ~r.err.nil THEN r
        ELSE [w |-> [r.w EXCEPT !.txs[tx].transactionCount = @ + 1],
              err |-> NilErr]

\* Variant: the explicit save point is counted like a nested Begin and named
\* from the counter.
TXSavePoint_Counted(w, tx, point, ok) ==
    LET r == TXExec(w, tx, "SAVEPOINT", transactionKeyForNestedPoint(w, tx), ok)
    IN  IF ~r.err.nil THEN r
        ELSE [w |-> [r.w EXCEPT !.txs[tx].transactionCount = @ + 1],
              err |-> NilErr]

TXSavePoint(w, tx, point, ok) ==
    TXExec(w, tx, "SAVEPOINT", QuoteWord(point), ok)

TXRollbackTo(w, tx, point, ok) ==
    TXExec(w, tx, "ROLLBACK TO SAVEPOINT", QuoteWord(point), ok)

\* Variant: a handle is built although master.Begin() failed.
doBeginCtx_HandleOnFailure(w, db, ctx, out) ==
    IF out = "master"
    THEN [w |-> w, tx |-> 0, err |-> Err("master: no connection")]
    ELSE LET err == IF out = "driver" THEN DriverErr("BEGIN") ELSE NilErr
             id == w.idGen + 1
             h == Len(w.txs) + 1
             new == [db |-> db,
                     ctx |-> WithValue(ctx, transactionIdForLoggerCtx, id),
                     transactionCount |-> 0]
             w1 == [w EXCEPT !.txs = Append(@, new),
                             !.raw = Append(@, [done |-> FALSE, commits |-> 0,
                                                rollbacks |-> 0]),
                             !.idGen = id]
         IN  [w |-> [w1 EXCEPT !.trace = Append(@, Stmt("BEGIN", "", h, err, w1))],
              tx |-> h, err |-> err]

\* Core.doBeginCtx: db.Master() and master.Begin() may each fail.
doBeginCtx(w, db, ctx, out) ==
    IF out = "master"
    THEN [w |-> w, tx |-> 0, err |-> Err("master: no connection")]
    ELSE IF out = "driver"
    THEN [w |-> [w EXCEPT !.trace =
                     Append(@, Stmt("BEGIN", "", 0, DriverErr("BEGIN"), w))],
          tx |-> 0, err |-> DriverErr("BEGIN")]
    ELSE LET id == w.idGen + 1
             h == Len(w.txs) + 1
             new == [db |-> db,
                     ctx |-> WithValue(ctx, transactionIdForLoggerCtx, id),
                     transactionCount |-> 0]
             w1 == [w EXCEPT !.txs = Append(@, new),
                             !.raw = Append(@, [done |-> FALSE, commits |-> 0,
                                                rollbacks |-> 0]),
                             !.idGen = id]
         IN  [w |-> [w1 EXCEPT !.trace =
                         Append(@, Stmt("BEGIN", "", h, NilErr, w1))],
              tx |-> h, err |-> NilErr]

\* ------------------------------------------------- the deferred finalizer
\* Variant: the error that triggered the rollback is kept when rollback fails.
DeferFinalize_KeepTrigger(w, tx, err, panicked, payload, ok) ==
    LET err1 == IF err.nil /\ panicked /\ payload # NilPayload
                THEN Errorf(payload) ELSE err
        r == IF ~err1.nil THEN TXRollback(w, tx, ok) ELSE TXCommit(w, tx, ok)
    IN  [w |-> r.w,
         err |-> IF ~err1.nil THEN err1 ELSE r.err,
         calls |-> IF ~err1.nil THEN <<"rollback">> ELSE <<"commit">>,
         finErr |-> r.err,
         recovered |-> err.nil /\ panicked]

\* Variant: a failing Commit is followed by a Rollback.
DeferFinalize_RollbackAfterFailedCommit(w, tx, err, panicked, payload, ok) ==
    LET err1 == IF err.nil /\ panicked /\ payload # NilPayload
                THEN Errorf(payload) ELSE err
        r == IF ~err1.nil THEN TXRollback(w, tx, ok) ELSE TXCommit(w, tx, ok)
        again == err1.nil /\ ~r.err.nil
        r2 == IF again THEN TXRollback(r.w, tx, TRUE) ELSE r
    IN  [w |-> r2.w,
         err |-> IF ~r.err.nil THEN r.err ELSE err1,
         calls |-> IF ~err1.nil THEN <<"rollback">>
                   ELSE IF again THEN <<"commit", "rollback">> ELSE <<"commit">>,
         finErr |-> r.err,
         recovered |-> err.nil /\ panicked]

\* Variant: the closure does not call recover().
DeferFinalize_NoRecover(w, tx, err, panicked, payload, ok) ==
    LET r == IF ~err.nil THEN TXRollback(w, tx, ok) ELSE TXCommit(w, tx, ok)
    IN  [w |-> r.w,
         err |-> IF ~r.err.nil THEN r.err ELSE err,
         calls |-> IF ~err.nil THEN <<"rollback">> ELSE <<"commit">>,
         finErr |-> r.err,
         recovered |-> FALSE]

\* Variant: the error of a failing Commit is dropped.
DeferFinalize_DropCommitError(w, tx, err, panicked, payload, ok) ==
    LET err1 == IF err.nil /\ panicked /\ payload # NilPayload
                THEN Errorf(payload) ELSE err
        r == IF ~err1.nil THEN TXRollback(w, tx, ok) ELSE TXCommit(w, tx, ok)
    IN  [w |-> r.w,
         err |-> IF ~err1.nil /\ ~r.err.nil THEN r.err ELSE err1,
         calls |-> IF ~err1.nil THEN <<"rollback">> ELSE <<"commit">>,
         finErr |-> r.err,
         recovered |-> err.nil /\ panicked]

\* The deferred closure of Core.Transaction and of TX.Transaction.  err is
\* the named result when the closure starts (nil when f did not return),
\* panicked and payload describe the pending panic and what recover() returns
\* for it: nil for panic(nil) in a build with the old semantics, and nil when
\* the goroutine is not panicking (f returned, or called runtime.Goexit).
DeferFinalize(w, tx, err, panicked, payload, ok) ==
    LET err1 == IF err.nil /\ panicked /\ payload # NilPayload
                THEN Errorf(payload) ELSE err
        r == IF ~err1.nil THEN TXRollback(w, tx, ok) ELSE TXCommit(w, tx, ok)
    IN  [w |-> r.w,
         err |-> IF ~r.err.nil THEN r.err ELSE err1,
         calls |-> IF ~err1.nil THEN <<"rollback">> ELSE <<"commit">>,
         finErr |-> r.err,
         recovered |-> err.nil /\ panicked]


\* TX.Transaction up to the call of f.  When WithTX panics (line 291) the
\* call ends there: no SAVEPOINT is issued and no closure is installed.
TXTransactionEnter(w, tx, ctx, ok) ==
    LET w1 == IF ctx # NilCtx THEN [w EXCEPT !.txs[tx].ctx = ctx] ELSE w
        r == TXFromCtx(w1, w1.txs[tx].ctx, w1.txs[tx].db.group)
        b == WithTX(r.w, r.w.txs[tx].ctx, tx)
        w2 == IF r.tx = 0 THEN [b.w EXCEPT !.txs[tx].ctx = b.ctx] ELSE r.w
        g == TXBegin(w2, tx, ok)
    IN  IF r.tx = 0 /\ b.panic
        THEN [w |-> b.w, err |-> NilErr, ctx |-> NilCtx, panic |-> TRUE]
        ELSE [w |-> g.w, err |-> g.err, ctx |-> g.w.txs[tx].ctx,
              panic |-> FALSE]

\* ------------------------------------------------- bookkeeping of a run
\* What is recorded about a Transaction call when it returns.  The fields
\* from depth on describe the chain of calls nested inside it.
NoReturn ==
    [valid |-> FALSE, via |-> "none", h |-> 0, ctx |-> Background,
     err |-> NilErr, ran |-> FALSE, fnKind |-> "none", fnErr |-> NilErr,
     calls |-> << >>, finErr |-> NilErr, entry |-> 0, exit |-> 0,
     start |-> 0, finStart |-> 1, stop |-> 0, depth |-> 0, chain |-> FALSE, clean |-> FALSE,
     failChain |-> FALSE, orig |-> NilErr, plain |-> FALSE,
     payload |-> NoPayload, unwinding |-> FALSE]

NoCall ==
    [op |-> "none", h |-> 0, ctx |-> Background, group |-> "", bound |-> 0,
     err |-> NilErr, arg |-> ""]

\* The stack frame of a Transaction call whose f is running.
\*   kind   "core": deferred closure of Core.Transaction; "tx": of TX.Transaction
\*   via    "owner" (Core.Transaction after BEGIN), "delegate" (Core.Transaction
\*          that found a handle in the context), "tx" (tx.Transaction called by f)
\*   ctx    the context given to f;  h: the handle given to f
\*   entry  transactionCount when the call started;  start: first trace index
\*   passed the call was made with the context its caller was given
\*   last   the error f saw last;  nested: Transaction calls f has made
\*   aside  f called db.Begin() or finished a handle db.Begin() returned
\*   doom   the panic or Goexit of a call f made, unwinding through f
NoDoom == [kind |-> "none", payload |-> NoPayload]

Frame(kind, via, h, ctx, entry, start, passed) ==
    [kind |-> kind, via |-> via, h |-> h, ctx |-> ctx, entry |-> entry,
     start |-> start, passed |-> passed, last |-> NilErr, nested |-> 0, sub |-> NoReturn,
     stmtOk |-> TRUE, direct |-> FALSE, passCtx |-> TRUE, subPlain |-> TRUE,
     aside |-> FALSE, doom |-> NoDoom]

Top(t) == stack[t][Len(stack[t])]

InFn(t) == stack[t] # << >>

\* f is running: no panic and no Goexit is unwinding through it.
Running(t) == InFn(t) /\ Top(t).doom = NoDoom

\* User code outside every Transaction call can still run: the goroutine has
\* not ended through runtime.Goexit.
Outside(t) == ~InFn(t) /\ ret[t].fnKind \notin {"goexit", "crash"}

\* User code can make a call: inside a running f, or before the Transaction
\* call the goroutine starts with.
CanCall(t) == Running(t) \/ (Outside(t) /\ ~ret[t].valid)

\* A call f made did not return: it panicked with payload, or (kind "goexit")
\* the goroutine is exiting.  The frame of f is what unwinds next.
Unwind(t, kind, payload) ==
    stack' = [stack EXCEPT ![t][Len(stack[t])].doom =
                  [kind |-> kind, payload |-> payload]]

\* f saw the result of a call it made on the handle.
Saw(fr, err, isDirect) ==
    [fr EXCEPT !.last = err,
               !.stmtOk = @ /\ err.nil,
               !.direct = @ \/ isDirect]

\* f saw the result of db.Begin(), or of a call on the handle it returned.
SawAside(fr, err) == [fr EXCEPT !.last = err, !.aside = TRUE]

\* The frame of the caller after the Transaction call it made returned sum.
Resume(fr, sum, pass) ==
    [fr EXCEPT !.last = sum.err,
               !.nested = @ + 1,
               !.sub = sum,
               !.passCtx = @ /\ pass,
               !.subPlain = @ /\ (sum.plain \/ ~sum.ran)]

\* A Transaction call made by the caller of t returned sum.
Returned(t, below, sum, pass) ==
    /\ ret' = [ret EXCEPT ![t] = sum]
    /\ stack' = [stack EXCEPT ![t] =
          IF below = << >> THEN << >>
          ELSE [below EXCEPT ![Len(below)] = Resume(below[Len(below)], sum, pass)]]

\* The closure of a Transaction call ran while the goroutine exits: nothing
\* returns, and the closure of the call around it runs next.
Exited(t, below, sum) ==
    /\ ret' = [ret EXCEPT ![t] = sum]
    /\ stack' = [stack EXCEPT ![t] =
          IF below = << >> THEN << >>
          ELSE [below EXCEPT ![Len(below)].doom =
                    [kind |-> "goexit", payload |-> NoPayload]]]

\* A call made by user code panicked with payload before it installed a
\* closure: the panic unwinds through f, or ends the program outside of one.
Panicked(t, payload) ==
    IF InFn(t) THEN Unwind(t, "panic", payload) /\ UNCHANGED ret
    ELSE /\ ret' = [ret EXCEPT ![t] = [NoReturn EXCEPT !.fnKind = "crash"]]
         /\ UNCHANGED stack

\* A Transaction call that returns before f is called.
EarlyReturn(via, h, err, w) ==
    [NoReturn EXCEPT !.valid = TRUE, !.via = via, !.h = h, !.err = err,
                     !.entry = IF h = 0 THEN 0 ELSE txs[h].transactionCount,
                     !.exit = IF h = 0 THEN 0 ELSE w.txs[h].transactionCount,
                     !.start = Len(trace) + 1, !.finStart = Len(w.trace) + 1,
                     !.stop = Len(w.trace)]

\* The driver reported the failure err (a finished *sql.Tx refusing a call is
\* not a failure of the driver).
Fault(err) ==
    IF err.nil \/ err = ErrTxDone THEN UNCHANGED faults
    ELSE faults < MaxFaults /\ faults' = faults + 1

\* What the driver can answer to a call: "ok", or "driver" for a failure.
Outcomes == IF faults < MaxFaults THEN {"ok", "driver"} ELSE {"ok"}

Oks == {o = "ok" : o \in Outcomes}

\* Contexts and database objects user code has at hand.
CtxChoices(t) ==
    {NilCtx, Background}
        \cup (IF InFn(t) THEN {Top(t).ctx} ELSE {})

DbChoices(t) ==
    [group : Groups,
     ctx : {Background} \cup (IF InFn(t) THEN {Top(t).ctx} ELSE {})]

\* --------------------------------------------------------------- actions
\* The goroutines of user code.
Procs == {1}

Init ==
    /\ txs = << >>
    /\ raw = << >>
    /\ trace = << >>
    /\ idGen = 0
    /\ stack = [t \in Procs |-> << >>]
    /\ ret = [t \in Procs |-> NoReturn]
    /\ call = NoCall
    /\ ops = 0
    /\ faults = 0
    /\ held = {}
    /\ build = "unknown"

\* Core.Transaction found the handle f.tx in the context: it delegates to
\* TX.Transaction, whose steps up to the call of f gave e.
CoreDelegate(t, f, pass, c, e) ==
    /\ Install(e.w)
    /\ Fault(e.err)
    /\ call' = [c EXCEPT !.h = f.tx, !.err = e.err,
                          !.arg = IF e.panic THEN "panic" ELSE ""]
    /\ IF e.panic THEN Panicked(t, NilParent)
       ELSE IF e.err.nil
       THEN /\ stack' = [stack EXCEPT ![t] = Append(@,
                   Frame("tx", "delegate", f.tx, e.ctx,
                         txs[f.tx].transactionCount, Len(trace) + 1, pass))]
            /\ UNCHANGED ret
       ELSE Returned(t, stack[t], EarlyReturn("delegate", f.tx, e.err, e.w), pass)

\* Core.Transaction binds the handle doBeginCtx returned to its context.
OwnerBind(b) ==
    LET x == WithTX(b.w, b.w.txs[b.tx].ctx, b.tx)
    IN  [w |-> [x.w EXCEPT !.txs[b.tx].ctx = x.ctx], ctx |-> x.ctx]

\* Core.Transaction found no handle: doBeginCtx gave b, and on success the
\* handle is bound to the context (x) before f is called.
CoreOwner(t, pass, c, b, x) ==
    /\ Fault(b.err)
    /\ call' = [c EXCEPT !.h = b.tx, !.err = b.err]
    /\ IF b.err.nil
       THEN /\ Install(x.w)
            /\ stack' = [stack EXCEPT ![t] = Append(@,
                   Frame("core", "owner", b.tx, x.ctx, 0, Len(trace) + 1, pass))]
            /\ UNCHANGED ret
       ELSE /\ Install(b.w)
            /\ Returned(t, stack[t], EarlyReturn("owner", 0, b.err, b.w), pass)

\* Core.Transaction after TXFromCtx(ctx, group) gave f.
CoreLookedUp(t, ctx, db, out, f, pass, c) ==
    IF f.tx # 0
    THEN /\ out # "master"
         /\ CoreDelegate(t, f, pass, c,
                         TXTransactionEnter(f.w, f.tx, ctx, out = "ok"))
    ELSE /\ out = "ok" => Len(txs) < MaxHandles
         /\ CoreOwner(t, pass, c, doBeginCtx(f.w, db, ctx, out),
                      OwnerBind(doBeginCtx(f.w, db, ctx, out)))

\* Core.Transaction with the context it works on: ctx, or db.GetCtx() for nil.
CoreWithCtx(t, ctx, db, out) ==
    CoreLookedUp(t, ctx, db, out, TXFromCtx(World, ctx, db.group),
                 InFn(t) /\ ctx = Top(t).ctx
                         /\ db.group = txs[Top(t).h].db.group,
                 [NoCall EXCEPT !.op = "Core.Transaction", !.ctx = ctx,
                                !.group = db.group,
                                !.bound = Value(ctx,
                                              transactionKeyForContext(db.group))])

\* Core.Transaction(ctx, f) on database object db, up to the call of f.
CoreTransaction(t, ctxIn, db, out) ==
    CoreWithCtx(t, IF ctxIn = NilCtx THEN db.ctx ELSE ctxIn, db, out)

CallCoreTransaction(t) ==
    /\ ops < MaxOps
    /\ CanCall(t)
    /\ Len(stack[t]) < MaxDepth
    /\ ops' = ops + 1
    /\ \E ctxIn \in CtxChoices(t), db \in DbChoices(t),
          out \in Outcomes \cup (IF faults < MaxFaults THEN {"master"} ELSE {}) :
          CoreTransaction(t, ctxIn, db, out)
    /\ UNCHANGED <<held, build>>

\* tx, err := db.Begin() in user code: b is what doBeginCtx returned.  The
\* handle is bound to no context and no closure finishes it.
CoreBegin(t, b) ==
    /\ Install(b.w)
    /\ Fault(b.err)
    /\ call' = [NoCall EXCEPT !.op = "Core.Begin", !.h = b.tx, !.err = b.err]
    /\ held' = IF b.err.nil THEN held \cup {b.tx} ELSE held
    /\ stack' = IF InFn(t)
                THEN [stack EXCEPT ![t][Len(stack[t])] = SawAside(Top(t), b.err)]
                ELSE stack
    /\ UNCHANGED <<ret, build>>

CallCoreBegin(t) ==
    /\ ops < MaxOps
    /\ CanCall(t)
    /\ ops' = ops + 1
    /\ \E db \in DbChoices(t),
          out \in Outcomes \cup (IF faults < MaxFaults THEN {"master"} ELSE {}) :
          /\ out = "ok" => Len(txs) < MaxHandles
          /\ CoreBegin(t, doBeginCtx(World, db, db.ctx, out))

\* User code calls Commit or Rollback on a handle Core.Begin returned.
HeldFinish(t, h, op, r) ==
    /\ Install(r.w)
    /\ Fault(r.err)
    /\ call' = [NoCall EXCEPT !.op = op, !.h = h, !.err = r.err, !.arg = "held"]
    /\ stack' = IF InFn(t)
                THEN [stack EXCEPT ![t][Len(stack[t])] = SawAside(Top(t), r.err)]
                ELSE stack
    /\ UNCHANGED <<ret, held, build>>

CallHeldFinish(t) ==
    /\ ops < MaxOps
    /\ CanCall(t)
    /\ ops' = ops + 1
    /\ \E h \in held, ok \in Oks, op \in {"TX.Commit", "TX.Rollback"} :
          HeldFinish(t, h, op,
                     IF op = "TX.Commit" THEN TXCommit(World, h, ok)
                     ELSE TXRollback(World, h, ok))

\* tx.Transaction(ctx, f2) called by f on its handle: ctx is the context the
\* handle works on afterwards, e the steps up to the call of f2.
TXTransaction(t, fr, ctx, e) ==
    /\ Install(e.w)
    /\ Fault(e.err)
    /\ call' = [NoCall EXCEPT !.op = "TX.Transaction", !.h = fr.h, !.ctx = ctx,
                              !.err = e.err, !.group = txs[fr.h].db.group,
                              !.arg = IF e.panic THEN "panic" ELSE ""]
    /\ IF e.panic THEN Panicked(t, NilParent)
       ELSE IF e.err.nil
       THEN /\ stack' = [stack EXCEPT ![t] = Append(@,
                   Frame("tx", "tx", fr.h, e.ctx, txs[fr.h].transactionCount,
                         Len(trace) + 1, fr.ctx = ctx))]
            /\ UNCHANGED ret
       ELSE Returned(t, stack[t], EarlyReturn("tx", fr.h, e.err, e.w),
                     fr.ctx = ctx)

\* f calls tx.Transaction(ctx, f2) on the handle it was given.
CallTXTransaction(t) ==
    /\ Running(t)
    /\ ops < MaxOps
    /\ Len(stack[t]) < MaxDepth
    /\ ops' = ops + 1
    /\ UNCHANGED <<held, build>>
    /\ \E ctxIn \in CtxChoices(t), ok \in Oks :
          TXTransaction(t, Top(t),
                        IF ctxIn = NilCtx THEN txs[Top(t).h].ctx ELSE ctxIn,
                        TXTransactionEnter(World, Top(t).h, ctxIn, ok))

\* f runs a statement of its own through tx.Exec / tx.Query / tx.Prepare.
FnStmt(t, r) ==
    /\ Install(r.w)
    /\ Fault(r.err)
    /\ call' = [NoCall EXCEPT !.op = "TX.Exec", !.h = Top(t).h, !.err = r.err]
    /\ stack' = [stack EXCEPT ![t][Len(stack[t])] = Saw(Top(t), r.err, FALSE)]
    /\ UNCHANGED <<ret, held, build>>

FnExec(t) ==
    /\ Running(t)
    /\ ops < MaxOps
    /\ ops' = ops + 1
    /\ \E ok \in Oks :
          FnStmt(t, TXExec(World, Top(t).h, "UPDATE t SET x=1", "", ok))

\* f calls tx.Begin / tx.Commit / tx.Rollback itself.
FnDirect(t, op, r, arg) ==
    /\ Install(r.w)
    /\ Fault(r.err)
    /\ call' = [NoCall EXCEPT !.op = op, !.h = Top(t).h, !.err = r.err,
                              !.arg = arg]
    /\ stack' = [stack EXCEPT ![t][Len(stack[t])] = Saw(Top(t), r.err, TRUE)]
    /\ UNCHANGED <<ret, held, build>>

FnBegin(t) ==
    /\ Running(t)
    /\ ops < MaxOps
    /\ ops' = ops + 1
    /\ \E ok \in Oks :
          FnDirect(t, "TX.Begin", TXBegin(World, Top(t).h, ok), "")

FnCommit(t) ==
    /\ Running(t)
    /\ ops < MaxOps
    /\ ops' = ops + 1
    /\ \E ok \in Oks :
          FnDirect(t, "TX.Commit", TXCommit(World, Top(t).h, ok), "")

FnRollback(t) ==
    /\ Running(t)
    /\ ops < MaxOps
    /\ ops' = ops + 1
    /\ \E ok \in Oks :
          FnDirect(t, "TX.Rollback", TXRollback(World, Top(t).h, ok), "")

\* f calls tx.Ctx(ctx) on the handle it was given.
FnCtx(t) ==
    /\ Running(t)
    /\ ops < MaxOps
    /\ ops' = ops + 1
    /\ \E ctx \in CtxChoices(t) :
          FnDirect(t, "TX.Ctx", TXCtx(World, Top(t).h, ctx), "")

\* f calls tx.SavePoint(point) / tx.RollbackTo(point) with a name of its own.
Points == {"sp", "sp2"}

FnSavePoint(t) ==
    /\ Running(t)
    /\ ops < MaxOps
    /\ ops' = ops + 1
    /\ \E ok \in Oks, point \in Points :
          FnDirect(t, "TX.SavePoint",
                   TXSavePoint(World, Top(t).h, point, ok), point)

FnRollbackTo(t) ==
    /\ Running(t)
    /\ ops < MaxOps
    /\ ops' = ops + 1
    /\ \E ok \in Oks, point \in Points :
          FnDirect(t, "TX.RollbackTo",
                   TXRollbackTo(World, Top(t).h, point, ok), point)

\* How f ends.  It returns nil, an error of its own or the error it saw last;
\* it calls panic with a value or with nil; or it calls runtime.Goexit
\* (testing's t.FailNow does).  When a call f made is unwinding, f ends with
\* it.  The deferred closure of the enclosing Transaction call then runs.
FnResults(fr) ==
    IF fr.doom.kind = "panic"
    THEN {[err |-> NilErr, panicked |-> TRUE, payload |-> fr.doom.payload,
           exit |-> FALSE]}
    ELSE IF fr.doom.kind = "goexit"
    THEN {[err |-> NilErr, panicked |-> FALSE, payload |-> NoPayload,
           exit |-> TRUE]}
    ELSE {[err |-> NilErr, panicked |-> FALSE, payload |-> NoPayload,
           exit |-> x] : x \in IF ops < MaxOps THEN BOOLEAN ELSE {FALSE}}
         \cup {[err |-> e, panicked |-> FALSE, payload |-> NoPayload,
                exit |-> FALSE] :
             e \in FnErrors \cup (IF fr.last.nil THEN {} ELSE {fr.last})}
         \cup {[err |-> NilErr, panicked |-> TRUE, payload |-> p, exit |-> FALSE] :
             p \in IF ops < MaxOps THEN Payloads \cup {NilPayload} ELSE {}}

\* The builds the run can still be one of when f ends with res: only a
\* panic(nil) tells them apart.
BuildChoices(res) ==
    IF res.panicked /\ res.payload = NilPayload /\ build = "unknown"
    THEN Builds ELSE {build}

\* What is recorded when the closure of frame fr has run: f ended with res
\* (its payload being what recover() returned) and the deferred closure did
\* d; finStart is the trace index of its first statement.  The record is
\* valid when the call returned; fnErr is the error f returned or the one
\* line 120 formed for its panic (none when recover() returned nil).
Summary(fr, res, d, finStart) ==
    LET fnKind == IF res.exit THEN "goexit"
                  ELSE IF res.panicked THEN "panic"
                  ELSE IF res.err.nil THEN "nil" ELSE "error"
        one == fr.nested = 1 /\ fr.sub.ran
    IN  [valid |-> ~res.exit, via |-> fr.via, h |-> fr.h, ctx |-> fr.ctx,
         err |-> d.err, ran |-> TRUE, fnKind |-> fnKind,
         fnErr |-> IF res.panicked /\ res.payload # NilPayload
                   THEN Errorf(res.payload) ELSE res.err,
         calls |-> d.calls, finErr |-> d.finErr,
         entry |-> fr.entry,
         exit |-> d.w.txs[fr.h].transactionCount,
         start |-> fr.start, finStart |-> finStart,
         stop |-> Len(d.w.trace),
         depth |-> 1 + (IF fr.nested = 0 THEN 0 ELSE fr.sub.depth),
         chain |-> ~fr.direct /\ ~fr.aside
                   /\ (fr.nested = 0 \/ (one /\ fr.passCtx /\ fr.sub.chain)),
         clean |-> fnKind = "nil" /\ fr.stmtOk /\ d.finErr.nil
                   /\ (fr.nested = 0 \/ (one /\ fr.sub.clean)),
         failChain |-> fnKind = "error"
                   /\ (fr.nested = 0
                       \/ (one /\ fr.sub.failChain /\ res.err = fr.sub.err)),
         orig |-> IF fr.nested = 0 THEN res.err ELSE fr.sub.orig,
         plain |-> ~fr.direct /\ fr.subPlain,
         payload |-> res.payload,
         unwinding |-> res.panicked /\ ~d.recovered]

\* The deferred closure of frame fr did d; the call returns to its caller,
\* unless the goroutine is exiting.
Finalized(t, fr, res, d) ==
    /\ Install(d.w)
    /\ Fault(d.finErr)
    /\ call' = [NoCall EXCEPT !.op = IF res.exit THEN "goexit" ELSE "return",
                              !.h = fr.h, !.err = d.err]
    /\ IF res.exit
       THEN Exited(t, SubSeq(stack[t], 1, Len(stack[t]) - 1),
                   Summary(fr, res, d, Len(trace) + 1))
       ELSE Returned(t, SubSeq(stack[t], 1, Len(stack[t]) - 1),
                     Summary(fr, res, d, Len(trace) + 1), fr.passed)

Return(t) ==
    /\ InFn(t)
    /\ \E res \in FnResults(Top(t)), ok \in Oks :
       \E b \in BuildChoices(res) :
          /\ build' = b
          /\ ops' = IF Top(t).doom = NoDoom /\ (res.panicked \/ res.exit)
                    THEN ops + 1 ELSE ops
          /\ Finalized(t, Top(t), [res EXCEPT !.payload = Recover(@, b)],
                       DeferFinalize(World, Top(t).h, res.err, res.panicked,
                                     Recover(res.payload, b), ok))
    /\ UNCHANGED held

Next ==
    \/ \E t \in Procs : CallCoreTransaction(t)
    \/ \E t \in Procs : CallCoreBegin(t)
    \/ \E t \in Procs : CallHeldFinish(t)
    \/ \E t \in Procs : CallTXTransaction(t)
    \/ \E t \in Procs : FnCtx(t)
    \/ \E t \in Procs : FnExec(t)
    \/ \E t \in Procs : FnBegin(t)
    \/ \E t \in Procs : FnCommit(t)
    \/ \E t \in Procs : FnRollback(t)
    \/ \E t \in Procs : FnSavePoint(t)
    \/ \E t \in Procs : FnRollbackTo(t)
    \/ \E t \in Procs : Return(t)

Spec == Init /\ [][Next]_vars

\* ------------------------------------------- WithTX and TXFromCtx alone
\* User code holding handles of two groups calls WithTX and TXFromCtx on a
\* context of its own: call.ctx is that context, call.h the handle last
\* injected, call.group and call.bound the last lookup and what it returned.
BindGroups == {"g1", "g2"}

\* The context in which WithTX injected handle h of group g into Background.
Injected(g, h) == WithValue(Background, transactionKeyForContext(g), h)

\* Handle h of group g whose database object has handle c of group cg in its
\* context (none when c = 0).
HandleOf(g, c, cg) ==
    [db |-> [group |-> g, ctx |-> IF c = 0 THEN Background ELSE Injected(cg, c)],
     ctx |-> Background, transactionCount |-> 0]

InitBind ==
    /\ \E g1 \in BindGroups, g2 \in BindGroups, c1 \in 0..2, c2 \in 0..2 :
          txs = <<HandleOf(g1, c1, IF c1 = 2 THEN g2 ELSE g1),
                  HandleOf(g2, c2, IF c2 = 1 THEN g1 ELSE g2)>>
    /\ raw = <<[done |-> FALSE, commits |-> 0, rollbacks |-> 0],
               [done |-> FALSE, commits |-> 0, rollbacks |-> 0]>>
    /\ trace = << >>
    /\ idGen = 2
    /\ stack = [t \in Procs |-> << >>]
    /\ ret = [t \in Procs |-> NoReturn]
    /\ call = NoCall
    /\ ops = 0
    /\ faults = 0
    /\ held = {}
    /\ build = "unknown"

\* ctx2 = WithTX(ctx, h), with h = 0 for a nil handle.
Inject(h, r) ==
    /\ Install(r.w)
    /\ call' = [call EXCEPT !.op = "WithTX", !.h = h, !.ctx = r.ctx,
                            !.arg = IF call.op = "WithTX" /\ call.h = h
                                    THEN "again" ELSE "",
                            !.bound = IF h = 0 THEN 0
                                      ELSE Value(call.ctx,
                                             transactionKeyForContext(txs[h].db.group))]
    /\ UNCHANGED <<stack, ret, ops, faults, held, build>>

CallWithTX ==
    /\ Len(call.ctx) < MaxLayers
    /\ \E h \in 0..Len(txs) : Inject(h, WithTX(World, call.ctx, h))

\* WithTX(nil, h): it returns nil for a nil handle and the context of the
\* handle's database object when that carries a handle of the group;
\* otherwise it panics (call.arg), which user code recovers from.  A context
\* it returned is the one at hand afterwards.
InjectNil(h, r) ==
    /\ Install(r.w)
    /\ call' = [call EXCEPT !.op = "WithTX(nil)", !.h = h,
                            !.ctx = IF r.panic \/ r.ctx = NilCtx THEN @ ELSE r.ctx,
                            !.arg = IF r.panic THEN "panic"
                                    ELSE IF r.ctx = NilCtx THEN "nil" ELSE "",
                            !.bound = 0]
    /\ UNCHANGED <<stack, ret, ops, faults, held, build>>

CallWithTXNil ==
    \E h \in 0..Len(txs) : InjectNil(h, WithTX(World, NilCtx, h))

\* TXFromCtx(ctx, group) on the context at hand.
LookedUp(g, r, which) ==
    /\ Install(r.w)
    /\ call' = [call EXCEPT !.op = which, !.group = g, !.bound = r.tx,
                            !.arg = ""]
    /\ UNCHANGED <<stack, ret, ops, faults, held, build>>

CallTXFromCtx ==
    \E g \in BindGroups :
        LookedUp(g, TXFromCtx(World, call.ctx, g), "TXFromCtx")

\* TXFromCtx(nil, group).
CallTXFromCtxNil ==
    \E g \in BindGroups :
        LookedUp(g, TXFromCtx(World, NilCtx, g), "TXFromCtx(nil)")

\* tx.Transaction(ctx, f) from its first line to its return, f returning
\* fnErr without using the handle: ok is the verdict on SAVEPOINT, ok2 on the
\* statement of the closure.  ctx is the context f was given.
TXTransactionRun(w, tx, ctx, ok, fnErr, ok2, e) ==
    IF e.panic \/ ~e.err.nil
    THEN [w |-> e.w, err |-> e.err, ctx |-> e.ctx, ran |-> FALSE,
          panic |-> e.panic]
    ELSE [w |-> DeferFinalize(e.w, tx, fnErr, FALSE, NoPayload, ok2).w,
          err |-> DeferFinalize(e.w, tx, fnErr, FALSE, NoPayload, ok2).err,
          ctx |-> e.ctx, ran |-> TRUE, panic |-> FALSE]

\* The context ctx is derived from the one handle h has stored: it adds
\* layers to it, and both carry h for its group.
Derived(h, ctx) ==
    /\ Len(txs[h].ctx) < Len(ctx)
    /\ SubSeq(ctx, 1, Len(txs[h].ctx)) = txs[h].ctx
    /\ Value(txs[h].ctx, transactionKeyForContext(txs[h].db.group)) = h
    /\ Value(ctx, transactionKeyForContext(txs[h].db.group)) = h

\* After h.Transaction(ctx, f) with the context at hand has returned.
Nested(h, r) ==
    /\ Install(r.w)
    /\ call' = [call EXCEPT
                   !.op = "TX.Transaction", !.h = h, !.err = r.err,
                   !.group = txs[h].db.group,
                   !.bound = Value(call.ctx,
                                   transactionKeyForContext(txs[h].db.group)),
                   !.arg = IF r.panic THEN "panic"
                           ELSE IF ~r.ran THEN ""
                           ELSE IF Derived(h, call.ctx) THEN "derived"
                           ELSE "ran"]
    /\ ops' = ops + 1
    /\ UNCHANGED <<stack, ret, faults, held, build>>

CallNested ==
    /\ ops < MaxNested
    /\ \E h \in 1..Len(txs), ok \in BOOLEAN, ok2 \in BOOLEAN,
          fnErr \in {NilErr} \cup FnErrors :
          Nested(h, TXTransactionRun(World, h, call.ctx, ok, fnErr, ok2,
                        TXTransactionEnter(World, h, call.ctx, ok)))

NextBind ==
    \/ CallWithTX
    \/ CallWithTXNil
    \/ CallTXFromCtx
    \/ CallTXFromCtxNil
    \/ CallNested

SpecBind == InitBind /\ [][NextBind]_vars

\* ------------------------------------ two call chains on one handle
\* Two goroutines hold the same *TX after BEGIN.  Chain 1 is the flow that
\* owns it: besides nested Begin/Commit/Rollback pairs it may finish the
\* handle at its own depth 0.  Chain 2 runs nested pairs only.  The methods
\* are taken apart into their accesses to tx.transactionCount and their
\* statements, which is how unsynchronised goroutines interleave:
\*   Begin:            name(count); Exec SAVEPOINT name; load count;
\*                     store count+1
\*   Commit/Rollback:  test count > 0; load count; store count-1; name(count);
\*                     Exec RELEASE / ROLLBACK TO name
\*                     or, count = 0: tx.tx.Commit() / tx.tx.Rollback()
\* stack[c] is the position of chain c, ret the save points alive in the
\* database session with the chain that created each, and what has happened;
\* ops counts the methods the chains have called.
Chains == {1, 2}

Idle == [pc |-> "idle", reg |-> 0, depth |-> 0, kind |-> "", name |-> ""]

NoHistory == [live |-> << >>, sameName |-> FALSE, foreign |-> FALSE, early |-> FALSE]

\* Variant: a mutex in the handle lets one chain at a time run a method.
HandleFree_Mutex(st, c) == \A d \in Chains \ {c} : st[d].pc = "idle"

\* What a method of the handle waits for before it starts: TX has no lock.
HandleFree(st, c) == TRUE

InitRace ==
    /\ txs = <<[db |-> [group |-> "g1", ctx |-> Background],
                ctx |-> Injected("g1", 1), transactionCount |-> 0]>>
    /\ raw = <<[done |-> FALSE, commits |-> 0, rollbacks |-> 0]>>
    /\ trace = << >>
    /\ idGen = 1
    /\ stack = [c \in Chains |-> Idle]
    /\ ret = NoHistory
    /\ call = NoCall
    /\ ops = 0
    /\ faults = 0
    /\ held = {}
    /\ build = "unknown"

\* The last save point named name that is alive (0: none).
LastNamed(live, name) ==
    LET S == {i \in 1..Len(live) : live[i].name = name}
    IN  IF S = {} THEN 0 ELSE CHOOSE i \in S : \A j \in S : j <= i

\* Chain c is inside a nested unit of work: it has begun one and not ended it.
Inside(st, c) == st[c].depth > 0 \/ st[c].pc \in {"b_load", "b_store"}

RaceStep(c, w, fr, hist, what) ==
    /\ Install(w)
    /\ stack' = [stack EXCEPT ![c] = fr]
    /\ ret' = hist
    /\ call' = [NoCall EXCEPT !.op = what, !.h = 1, !.bound = c]
    /\ ops' = IF what \in {"TX.Begin", "test"} THEN ops + 1 ELSE ops
    /\ UNCHANGED <<faults, held, build>>

\* tx.Begin, line 255: tx.transactionKeyForNestedPoint() reads the counter
\* and forms the name, the argument of tx.Exec.
RaceBeginName(c) ==
    /\ stack[c].pc = "idle" /\ ops < MaxRaceOps
    /\ HandleFree(stack, c)
    /\ RaceStep(c, World,
                [stack[c] EXCEPT !.pc = "b_exec",
                                 !.name = transactionKeyForNestedPoint(World, 1)],
                ret, "TX.Begin")

\* tx.Begin, line 255: tx.Exec hands the SAVEPOINT statement to the driver.
RaceBeginExec(c) ==
    /\ stack[c].pc = "b_exec"
    /\ RaceStep(c, TXExec(World, 1, "SAVEPOINT", stack[c].name, TRUE).w,
                [stack[c] EXCEPT
                    !.pc = IF raw[1].done THEN "idle" ELSE "b_load"],
                IF raw[1].done THEN ret
                ELSE [ret EXCEPT
                    !.live = Append(@, [name |-> stack[c].name, by |-> c]),
                    !.sameName = @ \/ \E i \in 1..Len(ret.live) :
                        /\ ret.live[i].name = stack[c].name
                        /\ ret.live[i].by # c],
                "exec")

\* tx.transactionCount++ / --, the read.
RaceLoad(c) ==
    /\ stack[c].pc \in {"b_load", "f_load"}
    /\ RaceStep(c, World,
                [stack[c] EXCEPT !.reg = txs[1].transactionCount,
                                 !.pc = IF @ = "b_load" THEN "b_store" ELSE "f_store"],
                ret, "load")

\* tx.transactionCount++, the write (line 259).
RaceIncStore(c) ==
    /\ stack[c].pc = "b_store"
    /\ RaceStep(c, [World EXCEPT !.txs[1].transactionCount = stack[c].reg + 1],
                [stack[c] EXCEPT !.pc = "idle", !.depth = @ + 1],
                ret, "store")

\* tx.Commit / tx.Rollback, lines 191 and 224: if tx.transactionCount > 0.
RaceFinishTest(c) ==
    /\ stack[c].pc = "idle" /\ ops < MaxRaceOps
    /\ stack[c].depth > 0 \/ (c = 1 /\ stack[c].kind # "done")
    /\ HandleFree(stack, c)
    /\ \E kind \in {"commit", "rollback"} :
          RaceStep(c, World,
                   [stack[c] EXCEPT
                       !.pc = IF txs[1].transactionCount > 0 THEN "f_load"
                              ELSE "f_raw",
                       !.kind = kind],
                   ret, "test")

\* tx.transactionCount--, the write (lines 192 and 225).
RaceDecStore(c) ==
    /\ stack[c].pc = "f_store"
    /\ RaceStep(c, [World EXCEPT !.txs[1].transactionCount = stack[c].reg - 1],
                [stack[c] EXCEPT !.pc = "f_name"], ret, "store")

\* Lines 193 and 226: tx.transactionKeyForNestedPoint() reads the counter and
\* forms the name, the argument of tx.Exec.
RaceFinishName(c) ==
    /\ stack[c].pc = "f_name"
    /\ RaceStep(c, World,
                [stack[c] EXCEPT !.pc = "f_exec",
                                 !.name = transactionKeyForNestedPoint(World, 1)],
                ret, "name")

\* What the statement does to the save points alive in the session.
Consume(live, kind, name) ==
    IF LastNamed(live, name) = 0 THEN live
    ELSE SubSeq(live, 1, LastNamed(live, name) - (IF kind = "commit" THEN 1 ELSE 0))

\* Lines 193 and 226: tx.Exec hands RELEASE SAVEPOINT / ROLLBACK TO SAVEPOINT
\* to the driver.
RaceFinishExec(c) ==
    /\ stack[c].pc = "f_exec"
    /\ RaceStep(c, TXExec(World, 1,
                          IF stack[c].kind = "commit" THEN "RELEASE SAVEPOINT"
                          ELSE "ROLLBACK TO SAVEPOINT",
                          stack[c].name, TRUE).w,
                [stack[c] EXCEPT !.pc = "idle",
                                 !.depth = IF @ > 0 THEN @ - 1 ELSE 0],
                IF raw[1].done THEN ret
                ELSE [ret EXCEPT
                    !.live = Consume(@, stack[c].kind, stack[c].name),
                    !.foreign = @ \/
                        (LastNamed(ret.live, stack[c].name) # 0
                           /\ ret.live[LastNamed(ret.live, stack[c].name)].by # c)],
                "TX." \o stack[c].kind)

\* Lines 199 and 232: tx.tx.Commit() / tx.tx.Rollback().
RaceFinishRaw(c) ==
    /\ stack[c].pc = "f_raw"
    /\ RaceStep(c, RawFinish(World, 1,
                             IF stack[c].kind = "commit" THEN "COMMIT"
                             ELSE "ROLLBACK", TRUE).w,
                [stack[c] EXCEPT !.pc = "idle",
                                 !.kind = IF c = 1 /\ stack[c].depth = 0
                                          THEN "done" ELSE @],
                IF raw[1].done THEN ret
                ELSE [ret EXCEPT
                    !.live = << >>,
                    !.early = @ \/ \E d \in Chains \ {c} : Inside(stack, d)],
                "raw")

NextRace ==
    \/ \E c \in Chains : RaceBeginName(c)
    \/ \E c \in Chains : RaceBeginExec(c)
    \/ \E c \in Chains : RaceLoad(c)
    \/ \E c \in Chains : RaceIncStore(c)
    \/ \E c \in Chains : RaceFinishTest(c)
    \/ \E c \in Chains : RaceDecStore(c)
    \/ \E c \in Chains : RaceFinishName(c)
    \/ \E c \in Chains : RaceFinishExec(c)
    \/ \E c \in Chains : RaceFinishRaw(c)

SpecRace == InitRace /\ [][NextRace]_vars

\* ============================================================ properties
\* The statements of a returned Transaction call: all of them, and those its
\* deferred closure issued.
Seg(r) == SubSeq(trace, r.start, r.stop)

FinSeg(r) == SubSeq(trace, r.finStart, r.stop)

Only(s, op) == SelectSeq(s, LAMBDA e : e.op = op)

Count(s, op) == Len(Only(s, op))

Reverse(s) == [i \in 1..Len(s) |-> s[Len(s) + 1 - i]]

Points2(s) == [i \in 1..Len(s) |-> <<s[i].h, s[i].arg>>]

\* The error of the last rollback statement of s that failed, nil if none did.
LastRollbackErr(s) ==
    LET f == SelectSeq(s, LAMBDA e : e.op \in {"ROLLBACK", "ROLLBACK TO SAVEPOINT"}
                                     /\ ~e.err.nil)
    IN  IF f = << >> THEN NilErr ELSE f[Len(f)].err

\* An owning Core.Transaction call returned whose nested calls form a chain:
\* every f made at most one nested call, with the context it was given, and
\* called nothing else on the handle but statements.
OwnerChain(r) == r.valid /\ r.via = "owner" /\ r.ran /\ r.chain

\* C1: a chain of N nested Transaction calls in which every f returns nil and
\* every statement succeeds issues one BEGIN (first), one COMMIT (last), no
\* rollback, N-1 SAVEPOINT and N-1 RELEASE SAVEPOINT statements, the releases
\* in the reverse order of their save points, and returns nil.
C1_NestedSuccessTrace ==
    \A t \in Procs :
        LET r == ret[t]
            s == Seg(r)
        IN  (OwnerChain(r) /\ r.clean) =>
               /\ r.err.nil
               /\ s[1].op = "BEGIN" /\ Count(s, "BEGIN") = 1
               /\ s[Len(s)].op = "COMMIT" /\ Count(s, "COMMIT") = 1
               /\ Count(s, "ROLLBACK") = 0
               /\ Count(s, "ROLLBACK TO SAVEPOINT") = 0
               /\ Count(s, "SAVEPOINT") = r.depth - 1
               /\ Count(s, "RELEASE SAVEPOINT") = r.depth - 1
               /\ Points2(Only(s, "RELEASE SAVEPOINT"))
                      = Reverse(Points2(Only(s, "SAVEPOINT")))

W_C1 ==
    /\ OwnerChain(ret[1]) /\ ret[1].clean /\ ret[1].depth = 3
    /\ Count(Seg(ret[1]), "RELEASE SAVEPOINT") = 2

\* C2: when the innermost f of a chain returns an error E and every enclosing
\* f returns the error of its nested call, every level rolls back (ROLLBACK
\* TO SAVEPOINT at nested levels, ROLLBACK at the outermost, no RELEASE
\* SAVEPOINT and no COMMIT) and the caller receives E, or the error of the
\* rollback statement that failed last.
C2_InnerErrorRollsBackAll ==
    \A t \in Procs :
        LET r == ret[t]
            s == Seg(r)
        IN  (OwnerChain(r) /\ r.failChain) =>
               /\ Count(s, "RELEASE SAVEPOINT") = 0
               /\ Count(s, "COMMIT") = 0
               /\ Count(s, "ROLLBACK TO SAVEPOINT") = r.depth - 1
               /\ Count(s, "ROLLBACK") = 1 /\ s[Len(s)].op = "ROLLBACK"
               /\ ~r.orig.nil
               /\ r.err = IF LastRollbackErr(s).nil THEN r.orig
                          ELSE LastRollbackErr(s)

W_C2 ==
    /\ OwnerChain(ret[1]) /\ ret[1].failChain /\ ret[1].depth = 3
    /\ ret[1].err = ret[1].orig

W_C2_RollbackFails ==
    /\ OwnerChain(ret[1]) /\ ret[1].failChain /\ ret[1].depth >= 2
    /\ ret[1].err # ret[1].orig

\* The statements the step just taken added to the trace.
Added == SubSeq(trace', Len(trace) + 1, Len(trace'))

FinalizeOps == {"COMMIT", "ROLLBACK", "RELEASE SAVEPOINT", "ROLLBACK TO SAVEPOINT"}

\* The step is a call of Core.Transaction by user code.
CoreCallStep == ops' = ops + 1 /\ call'.op = "Core.Transaction"

\* C3: Core.Transaction called with a context that carries a handle for the
\* group issues no BEGIN and creates no handle: it runs that handle's own
\* Transaction, and changes nothing of any handle but the nesting counter and
\* the stored context of the handle found.
C3_ReuseNoSecondBegin ==
    [][(CoreCallStep /\ call'.bound # 0) =>
          /\ Len(txs') = Len(txs) /\ raw' = raw /\ idGen' = idGen
          /\ Count(Added, "BEGIN") = 0
          /\ call'.h = call'.bound
          /\ \A h \in 1..Len(txs) :
                IF h = call'.bound THEN txs'[h].db = txs[h].db
                ELSE txs'[h] = txs[h]
          /\ \A t \in Procs :
                IF call'.err.nil
                THEN /\ Len(stack'[t]) = Len(stack[t]) + 1
                     /\ Top(t)'.kind = "tx" /\ Top(t)'.h = call'.bound
                     /\ Added = Only(Added, "SAVEPOINT") /\ Len(Added) = 1
                     /\ txs'[call'.bound].transactionCount
                            = txs[call'.bound].transactionCount + 1
                ELSE /\ Len(stack'[t]) = Len(stack[t])
                     /\ ret'[t].via = "delegate" /\ ret'[t].err = call'.err
                     /\ txs'[call'.bound].transactionCount
                            = txs[call'.bound].transactionCount]_vars

W_C3 ==
    /\ call.op = "Core.Transaction" /\ call.bound # 0 /\ call.err.nil
    /\ Len(stack[1]) = 3 /\ Top(1).via = "delegate" /\ Len(txs) = 1

\* C4: a Transaction call that ran f invokes exactly one of Commit and
\* Rollback, once, however f ended (it returned nil or an error, panicked, or
\* left through runtime.Goexit): Commit when f returned nil (no Rollback
\* after a failing Commit), Rollback when f returned an error.
\* Core.Transaction on the delegate path adds no finalization to that of
\* TX.Transaction, and none at all when f was not run.
C4_ExactlyOneFinalization ==
    \A t \in Procs :
        LET r == ret[t]
            f == FinSeg(r)
        IN  ((r.valid \/ r.ran) /\ r.via \in {"owner", "delegate"}) =>
               IF r.ran
               THEN /\ Len(r.calls) = 1 /\ Len(f) = 1
                    /\ r.calls[1] \in {"commit", "rollback"}
                    /\ r.calls = <<"commit">> =>
                          f[1].op \in {"COMMIT", "RELEASE SAVEPOINT"}
                    /\ r.calls = <<"rollback">> =>
                          f[1].op \in {"ROLLBACK", "ROLLBACK TO SAVEPOINT"}
                    /\ r.fnKind = "nil" => r.calls = <<"commit">>
                    /\ r.fnKind = "error" => r.calls = <<"rollback">>
               ELSE /\ r.calls = << >> /\ f = << >>
                    /\ \A i \in 1..Len(Seg(r)) : Seg(r)[i].op \notin FinalizeOps

W_C4 ==
    /\ ret[1].valid /\ ret[1].via = "owner" /\ ret[1].ran
    /\ ret[1].fnKind = "nil" /\ ~ret[1].finErr.nil
    /\ call.op = "return"

\* f panicked with nil in a build where recover() returns nil for it: the
\* closure called Commit, once, and the call returned nil.
W_C4_NilPanic ==
    /\ ret[1].valid /\ ret[1].via = "owner" /\ ret[1].ran
    /\ ret[1].fnKind = "panic" /\ ret[1].payload = NilPayload
    /\ build = "panicnil=1"
    /\ ret[1].calls = <<"commit">> /\ ret[1].err.nil
    /\ raw[ret[1].h].commits = 1 /\ raw[ret[1].h].rollbacks = 0

\* The f of a nested call left through runtime.Goexit: the closures of both
\* calls committed and the goroutine ended.
W_C4_Goexit ==
    /\ ~InFn(1) /\ ret[1].fnKind = "goexit" /\ ~ret[1].valid /\ ret[1].ran
    /\ call.op = "goexit" /\ Len(trace) = 4
    /\ trace[3].op = "RELEASE SAVEPOINT" /\ trace[4].op = "COMMIT"

\* C5: the physical Commit/Rollback of a handle is invoked at most once in
\* total, each time with the nesting counter at 0, and never again once the
\* handle is finalized.
C5_PhysicalFinishAtMostOnce ==
    /\ \A h \in 1..Len(raw) : raw[h].commits + raw[h].rollbacks <= 1
    /\ \A i \in 1..Len(trace) :
          trace[i].op \in {"COMMIT", "ROLLBACK"} =>
             trace[i].cnt = 0 /\ ~trace[i].done

\* C6: the nesting counter is never negative, and it is 0 whenever the
\* physical Commit/Rollback is invoked.
C6_CounterNonNegative ==
    /\ \A h \in 1..Len(txs) : txs[h].transactionCount >= 0
    /\ \A i \in 1..Len(trace) :
          /\ trace[i].h # 0 => trace[i].cnt >= 0
          /\ trace[i].op \in {"COMMIT", "ROLLBACK"} => trace[i].cnt = 0
    /\ \A h \in 1..Len(txs) :
          (call.h = h /\ call.op \in {"return", "TX.Commit", "TX.Rollback"}
             /\ trace # << >> /\ trace[Len(trace)].op \in {"COMMIT", "ROLLBACK"})
          => txs[h].transactionCount = 0

W_C6 ==
    /\ \E i \in 1..Len(trace) : \E j \in 1..Len(trace) : \E k \in 1..Len(trace) :
          /\ i < j /\ j < k
          /\ trace[i].op = "SAVEPOINT" /\ trace[i].err.nil /\ trace[i].h = 1
          /\ trace[j].op = "ROLLBACK TO SAVEPOINT" /\ trace[j].h = 1
          /\ trace[k].op = "ROLLBACK" /\ trace[k].h = 1 /\ ~trace[k].done
    /\ raw[1].done /\ txs[1].transactionCount = 0

\* C7: when f and the calls nested in it use the handle only for statements
\* and nested Transaction calls, a returning owner call leaves its physical
\* transaction finalized by exactly one Commit or Rollback, and by a
\* Rollback when f returned an error or panicked.
C7_OwnerFinalizesOnce ==
    \A t \in Procs :
        LET r == ret[t]
        IN  (r.valid /\ r.via = "owner" /\ r.ran /\ r.plain
                /\ call.op = "return" /\ call.h = r.h) =>
               /\ raw[r.h].done
               /\ raw[r.h].commits + raw[r.h].rollbacks = 1
               /\ r.fnKind # "nil" => raw[r.h].rollbacks = 1
               /\ r.fnKind = "nil" => raw[r.h].commits = 1
               /\ Count(SelectSeq(Seg(r), LAMBDA e : e.h = r.h), "COMMIT")
                    + Count(SelectSeq(Seg(r), LAMBDA e : e.h = r.h), "ROLLBACK") = 1

W_C7 ==
    /\ ret[1].valid /\ ret[1].via = "owner" /\ ret[1].ran /\ ret[1].plain
    /\ call.op = "return" /\ call.h = ret[1].h /\ stack[1] = << >>
    /\ ret[1].fnKind = "panic" /\ ret[1].depth >= 2
    /\ \E i \in 1..Len(trace) : ~trace[i].err.nil

\* C8: a panic of f is recovered by the Transaction call around it: the call
\* returns an error whose message is the panic value, after exactly one
\* Rollback and no Commit; the error of a failing Rollback is returned instead.
C8_PanicBecomesError ==
    \A t \in Procs :
        LET r == ret[t]
            f == FinSeg(r)
        IN  (r.valid /\ r.ran /\ r.fnKind = "panic") =>
               /\ ~r.unwinding
               /\ ~r.err.nil
               /\ r.calls = <<"rollback">>
               /\ Len(f) = 1 /\ f[1].op \in {"ROLLBACK", "ROLLBACK TO SAVEPOINT"}
               /\ IF f[1].err.nil
                  THEN r.err = Err(IF r.payload.type = "int" /\ r.payload.i = 42
                                   THEN "42" ELSE r.payload.s)
                  ELSE r.err = f[1].err

W_C8 ==
    /\ ret[1].valid /\ ret[1].ran /\ ret[1].fnKind = "panic"
    /\ ret[1].via = "delegate" /\ ret[1].err = Err("42")

\* C9: the error a Transaction call returns is E when f returned E and
\* Rollback returned nil, R when Rollback returned R, C when f returned nil and
\* Commit returned C, and nil when f and Commit both returned nil.
C9_ReturnedError ==
    \A t \in Procs :
        LET r == ret[t]
            f == FinSeg(r)
        IN  (r.valid /\ r.ran /\ r.fnKind \in {"nil", "error"} /\ Len(f) = 1) =>
               /\ (r.fnKind = "error" /\ f[1].err.nil) => r.err = r.fnErr
               /\ (r.fnKind = "error" /\ ~f[1].err.nil) => r.err = f[1].err
               /\ (r.fnKind = "nil" /\ ~f[1].err.nil) => r.err = f[1].err
               /\ (r.fnKind = "nil" /\ f[1].err.nil) => r.err.nil
               /\ r.fnKind = "error" => ~r.fnErr.nil
               /\ r.fnKind = "nil" => r.fnErr.nil

W_C9 ==
    /\ ret[1].valid /\ ret[1].ran /\ ret[1].fnKind = "nil"
    /\ ~ret[1].err.nil /\ ret[1].err = DriverErr("COMMIT")

W_C9_RollbackWins ==
    /\ ret[1].valid /\ ret[1].ran /\ ret[1].fnKind = "error"
    /\ ret[1].fnErr = Err("E") /\ ret[1].err = DriverErr("ROLLBACK")

\* C10: when db.Master() or master.Begin() fails, Core.Transaction returns
\* that error at once: no handle is created, f is not called and no commit,
\* rollback or save-point statement is issued.
C10_AcquisitionFailure ==
    [][(CoreCallStep /\ call'.bound = 0 /\ ~call'.err.nil) =>
          /\ txs' = txs /\ raw' = raw /\ idGen' = idGen
          /\ call'.err \in {Err("master: no connection"), DriverErr("BEGIN")}
          /\ \A i \in 1..Len(Added) :
                Added[i].op = "BEGIN" /\ Added[i].err = call'.err
          /\ \A t \in Procs :
                /\ Len(stack'[t]) = Len(stack[t])
                /\ ret'[t].valid /\ ~ret'[t].ran /\ ret'[t].h = 0
                /\ ret'[t].via = "owner" /\ ret'[t].err = call'.err]_vars

W_C10 ==
    /\ call.op = "Core.Transaction" /\ call.bound = 0
    /\ call.err = DriverErr("BEGIN") /\ ~InFn(1) /\ txs = << >>
    /\ ret[1].valid /\ ~ret[1].ran /\ ret[1].via = "owner"

\* The SQL texts of a sequence of statements.
Texts(s) == [i \in 1..Len(s) |-> SqlText(s[i])]

\* An outer Transaction call that made one inner call with the context it was
\* given, whose f ran one statement, every statement succeeding.
OneInner(r) ==
    /\ OwnerChain(r) /\ r.depth = 2
    /\ Len(Seg(r)) = 5 /\ Seg(r)[3].op = "UPDATE t SET x=1"
    /\ \A i \in 1..Len(Seg(r)) : Seg(r)[i].err.nil

\* The statements of outer and inner call when the save point is named name.
InnerSequence(commit, name) ==
    <<"BEGIN", "SAVEPOINT " \o QuoteWord(name), "UPDATE t SET x=1",
      (IF commit THEN "RELEASE SAVEPOINT " ELSE "ROLLBACK TO SAVEPOINT ")
          \o QuoteWord(name),
      IF commit THEN "COMMIT" ELSE "ROLLBACK">>

\* C11 as stated: the statements of an outer call with one inner call are
\* BEGIN, SAVEPOINT transaction1, the statement, RELEASE SAVEPOINT transaction1,
\* COMMIT when both succeed, and with ROLLBACK TO SAVEPOINT transaction1,
\* ROLLBACK and the error E when the inner f returns E and the outer passes it on.
C11_SavePointNamedOne ==
    \A t \in Procs :
        LET r == ret[t]
        IN  OneInner(r) =>
               /\ r.clean => /\ Texts(Seg(r)) = InnerSequence(TRUE, "transaction1")
                             /\ r.err.nil
               /\ r.failChain => /\ Texts(Seg(r)) = InnerSequence(FALSE, "transaction1")
                                 /\ r.err = r.orig

\* C11 amended: the same sequences with the save point named transaction0,
\* the prefix followed by the counter before TX.Begin increments it.
C11_SavePointNamedZero ==
    \A t \in Procs :
        LET r == ret[t]
        IN  OneInner(r) =>
               /\ r.clean => /\ Texts(Seg(r)) = InnerSequence(TRUE, "transaction0")
                             /\ r.err.nil
               /\ r.failChain => /\ Texts(Seg(r)) = InnerSequence(FALSE, "transaction0")
                                 /\ r.err = r.orig

W_C11 ==
    /\ OneInner(ret[1]) /\ ret[1].failChain
    /\ Texts(Seg(ret[1])) = InnerSequence(FALSE, "transaction0")

W_C11_Commit ==
    /\ OneInner(ret[1]) /\ ret[1].clean
    /\ Texts(Seg(ret[1])) = InnerSequence(TRUE, "transaction0")

\* A statement f ran itself: through tx.Exec, tx.SavePoint or tx.RollbackTo.
UserStmt(e) ==
    e.op = "UPDATE t SET x=1" \/ e.arg \in {QuoteWord(p) : p \in Points}

\* The step is a statement f runs on its handle.
StmtStep ==
    ops' = ops + 1 /\ call'.op \in {"TX.Exec", "TX.SavePoint", "TX.RollbackTo"}

\* A statement of f failed at trace index i or later.
FailedStmtSince(i) ==
    \E j \in i..Len(trace) : UserStmt(trace[j]) /\ ~trace[j].err.nil

\* C12: a statement f runs, failing or not, changes no nesting counter and
\* leaves every *sql.Tx as it was, issuing nothing but the statement; and
\* when f ends after a statement of it failed, the closure issues one
\* statement: it commits if f returned nil (RELEASE SAVEPOINT with the
\* counter above 0, COMMIT at 0) and rolls back only if f returned an error
\* or panicked.
C12_FailedStatementNoRollback ==
    [][/\ StmtStep =>
             /\ txs' = txs /\ raw' = raw /\ ret' = ret
             /\ Len(Added) = 1 /\ UserStmt(Added[1])
             /\ \A t \in Procs : Len(stack'[t]) = Len(stack[t])
       /\ \A t \in Procs :
             (call'.op \in {"return", "goexit"} /\ InFn(t)
                 /\ FailedStmtSince(Top(t).start)) =>
                /\ Len(Added) = 1
                /\ Added[1].op \in
                      IF txs[Top(t).h].transactionCount > 0
                      THEN {"RELEASE SAVEPOINT", "ROLLBACK TO SAVEPOINT"}
                      ELSE {"COMMIT", "ROLLBACK"}
                /\ ret'[t].fnKind = "nil" =>
                      Added[1].op \in {"RELEASE SAVEPOINT", "COMMIT"}
                /\ Added[1].op \in {"ROLLBACK TO SAVEPOINT", "ROLLBACK"} =>
                      ret'[t].fnKind \in {"error", "panic"}]_vars

W_C12 ==
    /\ ret[1].valid /\ ret[1].ran /\ ret[1].via = "owner" /\ ret[1].fnKind = "nil"
    /\ call.op = "return" /\ stack[1] = << >>
    /\ \E j \in ret[1].start..(ret[1].finStart - 1) :
          UserStmt(trace[j]) /\ trace[j].err = DriverErr("UPDATE t SET x=1")
    /\ trace[Len(trace)].op = "COMMIT" /\ trace[Len(trace)].err.nil
    /\ ret[1].err.nil

W_C12_Nested ==
    /\ ret[1].valid /\ ret[1].ran /\ ret[1].via # "owner" /\ ret[1].fnKind = "nil"
    /\ call.op = "return"
    /\ \E j \in ret[1].start..(ret[1].finStart - 1) :
          UserStmt(trace[j]) /\ ~trace[j].err.nil /\ trace[j].err # ErrTxDone
    /\ trace[Len(trace)].op = "RELEASE SAVEPOINT"

\* What TXFromCtx returns for ctx and group g, in the state w.
Lookup(w, ctx, g) == TXFromCtx(w, ctx, g).tx

\* C13: WithTX called again with the context it returned and the same handle
\* returns that context itself, no layer added, so every lookup on it gives
\* what it gave after the first call.
C13_BindIdempotent ==
    [][(call'.op = "WithTX" /\ call'.arg = "again") =>
          /\ call'.ctx = call.ctx
          /\ Len(call'.ctx) = Len(call.ctx)
          /\ \A g \in BindGroups :
                Lookup(World', call'.ctx, g) = Lookup(World, call.ctx, g)]_vars

W_C13 ==
    /\ call.op = "WithTX" /\ call.arg = "again" /\ call.h = 2
    /\ call.ctx = Injected(txs[2].db.group, 2)

\* C14: when TXFromCtx finds no handle of h's group in ctx, it finds exactly
\* h in WithTX(ctx, h) and finds for every other group what it found in ctx;
\* TXFromCtx on a nil context, or on a context without a handle for the
\* group, returns nil; WithTX with a nil handle returns ctx itself.
C14_BindLookupRoundTrip ==
    [][/\ (call'.op = "WithTX" /\ call'.h # 0 /\ call'.bound = 0) =>
             /\ Lookup(World', call'.ctx, txs[call'.h].db.group) = call'.h
             /\ \A g \in BindGroups \ {txs[call'.h].db.group} :
                   Lookup(World', call'.ctx, g) = Lookup(World, call.ctx, g)
       /\ (call'.op = "WithTX" /\ call'.h = 0) => call'.ctx = call.ctx
       /\ call'.op = "TXFromCtx(nil)" => call'.bound = 0
       /\ (call'.op = "TXFromCtx"
              /\ Value(call.ctx, transactionKeyForContext(call'.group)) = 0)
             => call'.bound = 0]_vars

\* The step is a call of tx.Begin, or of a Transaction that runs on a handle
\* it was given or found and gets as far as its tx.Begin (line 293).
BeginStep ==
    /\ ops' = ops + 1
    /\ call'.arg # "panic"
    /\ \/ call'.op \in {"TX.Begin", "TX.Transaction"}
       \/ call'.op = "Core.Transaction" /\ call'.bound # 0

\* C15: tx.Begin issues one SAVEPOINT and adds exactly 1 to the counter if
\* and only if the statement succeeds; when it fails the statement's error
\* is returned as it is and the counter is left alone, and a Transaction
\* call on the handle returns that error without calling f, Commit or
\* Rollback.
C15_BeginCountsOnSuccess ==
    [][BeginStep =>
          /\ Len(Added) = 1 /\ Added[1].op = "SAVEPOINT"
          /\ Added[1].h = call'.h /\ call'.err = Added[1].err
          /\ \A h \in 1..Len(txs) :
                txs'[h].transactionCount =
                   IF h = call'.h /\ Added[1].err.nil
                   THEN txs[h].transactionCount + 1
                   ELSE txs[h].transactionCount
          /\ raw' = raw
          /\ \A t \in Procs :
                call'.op # "TX.Begin" =>
                   IF call'.err.nil
                   THEN /\ Len(stack'[t]) = Len(stack[t]) + 1
                        /\ ret'[t] = ret[t]
                   ELSE /\ Len(stack'[t]) = Len(stack[t])
                        /\ ret'[t].valid /\ ~ret'[t].ran
                        /\ ret'[t].calls = << >>
                        /\ ret'[t].err = Added[1].err]_vars

W_C15 ==
    /\ call.op = "TX.Transaction" /\ ~call.err.nil /\ call.err # ErrTxDone
    /\ ret[1].valid /\ ~ret[1].ran /\ ret[1].via = "tx" /\ ret[1].err = call.err
    /\ trace[Len(trace)].op = "SAVEPOINT" /\ trace[Len(trace)].err = call.err
    /\ txs[call.h].transactionCount = 0

W_C15_Begin ==
    /\ call.op = "TX.Begin" /\ ~call.err.nil /\ call.err # ErrTxDone
    /\ txs[call.h].transactionCount = 1

\* C16: tx.SavePoint(name) and tx.RollbackTo(name), succeeding or failing,
\* change no nesting counter and no *sql.Tx, and issue nothing but SAVEPOINT
\* name / ROLLBACK TO SAVEPOINT name with the name they were given.
C16_ExplicitPointsBypassCounter ==
    [][(ops' = ops + 1 /\ call'.op \in {"TX.SavePoint", "TX.RollbackTo"}) =>
          /\ txs' = txs /\ raw' = raw /\ idGen' = idGen
          /\ Len(Added) = 1
          /\ Added[1].op = IF call'.op = "TX.SavePoint" THEN "SAVEPOINT"
                            ELSE "ROLLBACK TO SAVEPOINT"
          /\ call'.arg \in Points /\ Added[1].arg = QuoteWord(call'.arg)
          /\ Added[1].h = call'.h /\ Added[1].err = call'.err
          /\ Added[1].cnt = txs[call'.h].transactionCount
          /\ \A t \in Procs : Len(stack'[t]) = Len(stack[t]) /\ ret'[t] = ret[t]]_vars

W_C16 ==
    /\ call.op = "TX.RollbackTo" /\ call.arg = "sp" /\ ~call.err.nil
    /\ call.err # ErrTxDone
    /\ txs[call.h].transactionCount = 1 /\ ~raw[call.h].done
    /\ trace[Len(trace)].op = "ROLLBACK TO SAVEPOINT"
    /\ trace[Len(trace)].arg = QuoteWord("sp")

W_C16_SavePoint ==
    /\ call.op = "TX.SavePoint" /\ call.arg = "sp2" /\ call.err.nil
    /\ txs[call.h].transactionCount = 0
    /\ trace[Len(trace)].op = "SAVEPOINT"

\* C17: no method of the handle waits for the other chain.  A chain that is
\* between methods can start tx.Begin, and tx.Commit / tx.Rollback when it has
\* something to end, whatever the other chain is in the middle of.
C17_NoMutualExclusion ==
    \A d \in Chains :
        (stack[d].pc = "idle" /\ ops < MaxRaceOps) =>
           /\ ENABLED RaceBeginName(d)
           /\ (stack[d].depth > 0 \/ (d = 1 /\ stack[d].kind # "done"))
                 => ENABLED RaceFinishTest(d)

\* Both chains issued SAVEPOINT with the same name, a chain released or
\* rolled back to the save point of the other, and the physical COMMIT or
\* ROLLBACK was issued while the other chain was inside its nested unit.
W_C17 == ret.sameName /\ ret.foreign /\ ret.early

W_C17_SameName == ret.sameName /\ stack[1].pc = "b_load" /\ stack[2].pc = "b_load"

\* A chain formed its name, the other chain ended its save point, and the
\* statement went out with a name that is no longer the counter's.
W_C17_StaleName ==
    /\ Texts(trace) = <<"SAVEPOINT " \o QuoteWord("transaction0"),
                        "RELEASE SAVEPOINT " \o QuoteWord("transaction0"),
                        "SAVEPOINT " \o QuoteWord("transaction1")>>
    /\ trace[3].cnt = 0

\* The step issues the RELEASE SAVEPOINT or ROLLBACK TO SAVEPOINT of a nested
\* tx.Commit / tx.Rollback, called by f or by the closure of a Transaction.
NestedFinishStep ==
    /\ Len(Added) = 1
    /\ Added[1].op \in {"RELEASE SAVEPOINT", "ROLLBACK TO SAVEPOINT"}
    /\ ~(ops' = ops + 1 /\ call'.op = "TX.RollbackTo")

\* The step is tx.Commit / tx.Rollback called by f at a counter above 0.
NestedFinishCall ==
    /\ ops' = ops + 1 /\ call'.op \in {"TX.Commit", "TX.Rollback"}
    /\ txs[call'.h].transactionCount > 0

\* C18 as stated: a nested commit or rollback takes 1 from the counter and
\* names the save point with the prefix followed by the counter as it was
\* before the decrement.
C18_PreDecrementName ==
    [][NestedFinishStep =>
          /\ txs[Added[1].h].transactionCount > 0
          /\ txs'[Added[1].h].transactionCount
                = txs[Added[1].h].transactionCount - 1
          /\ Added[1].arg = QuoteWord(transactionPointerPrefix
                 \o ToString(txs[Added[1].h].transactionCount))]_vars

\* C18: a nested commit or rollback (counter > 0) takes 1 from the counter
\* and issues RELEASE SAVEPOINT, respectively ROLLBACK TO SAVEPOINT, with the
\* prefix followed by the counter as it is after the decrement, and nothing
\* else; the statement's error is what the call returns.
C18_PostDecrementName ==
    [][/\ NestedFinishStep =>
             /\ txs[Added[1].h].transactionCount > 0
             /\ txs'[Added[1].h].transactionCount
                   = txs[Added[1].h].transactionCount - 1
             /\ Added[1].cnt = txs'[Added[1].h].transactionCount
             /\ Added[1].arg = QuoteWord(transactionPointerPrefix
                    \o ToString(txs'[Added[1].h].transactionCount))
       /\ NestedFinishCall =>
             /\ NestedFinishStep
             /\ Added[1].h = call'.h /\ Added[1].err = call'.err
             /\ Added[1].op = IF call'.op = "TX.Commit" THEN "RELEASE SAVEPOINT"
                               ELSE "ROLLBACK TO SAVEPOINT"
             /\ raw' = raw]_vars

\* The tx.Rollback of a Transaction two levels down, at counter 2, has
\* issued ROLLBACK TO SAVEPOINT transaction1 and left the counter at 1.
W_C18 ==
    /\ trace # << >>
    /\ trace[Len(trace)].op = "ROLLBACK TO SAVEPOINT"
    /\ trace[Len(trace)].arg = QuoteWord("transaction1")
    /\ trace[Len(trace)].err.nil
    /\ txs[trace[Len(trace)].h].transactionCount = 1
    /\ ret[1].valid /\ ret[1].via = "tx" /\ ~ret[1].err.nil

\* tx.Commit called at counter 1 has issued RELEASE SAVEPOINT transaction0.
W_C18_Commit ==
    /\ call.op = "TX.Commit" /\ call.err.nil
    /\ txs[call.h].transactionCount = 0 /\ ~raw[call.h].done
    /\ trace[Len(trace)].op = "RELEASE SAVEPOINT"
    /\ trace[Len(trace)].arg = QuoteWord("transaction0")

\* A save point statement of tx.Begin / tx.Commit / tx.Rollback.
AutoPoint(e) ==
    /\ e.op \in {"SAVEPOINT", "RELEASE SAVEPOINT", "ROLLBACK TO SAVEPOINT"}
    /\ ~UserStmt(e)

\* Replays the automatic save point statements of handle h in s, open being
\* the names created and not yet named by a release or rollback: a new name
\* differs from every open one, and a release or rollback names the last
\* open one.  Nothing is asked once a SAVEPOINT statement has failed.
RECURSIVE Lifo(_, _, _)
Lifo(s, h, open) ==
    IF s = << >> THEN TRUE
    ELSE IF Head(s).h # h \/ ~AutoPoint(Head(s)) THEN Lifo(Tail(s), h, open)
    ELSE IF Head(s).op = "SAVEPOINT"
    THEN \/ ~Head(s).err.nil
         \/ /\ \A i \in 1..Len(open) : open[i] # Head(s).arg
            /\ Lifo(Tail(s), h, Append(open, Head(s).arg))
    ELSE /\ open # << >>
         /\ Head(s).arg = open[Len(open)]
         /\ Lifo(Tail(s), h, SubSeq(open, 1, Len(open) - 1))

\* C19: over the statements of a handle up to each save point statement of
\* tx.Begin / tx.Commit / tx.Rollback, as long as every SAVEPOINT of tx.Begin
\* succeeds, each RELEASE SAVEPOINT and ROLLBACK TO SAVEPOINT of tx.Commit /
\* tx.Rollback names the save point created last among those not yet
\* released or rolled back to, and the save points open at the same time
\* have different names.
C19_SavePointsLifo ==
    (trace # << >> /\ AutoPoint(trace[Len(trace)])) =>
        Lifo(trace, trace[Len(trace)].h, << >>)

\* The automatic save point statements of handle h, as texts.
AutoTexts(h) ==
    Texts(SelectSeq(trace, LAMBDA e : e.h = h /\ AutoPoint(e) /\ e.err.nil))

\* Two save points were open at once and ended innermost first, one by a
\* rollback and one by a release.
W_C19 ==
    \E h \in 1..Len(txs) :
        AutoTexts(h) = <<"SAVEPOINT " \o QuoteWord("transaction0"),
                         "SAVEPOINT " \o QuoteWord("transaction1"),
                         "ROLLBACK TO SAVEPOINT " \o QuoteWord("transaction1"),
                         "RELEASE SAVEPOINT " \o QuoteWord("transaction0")>>

\* A name is used again after its save point was released.
W_C19_Reuse ==
    \E h \in 1..Len(txs) :
        AutoTexts(h) = <<"SAVEPOINT " \o QuoteWord("transaction0"),
                         "RELEASE SAVEPOINT " \o QuoteWord("transaction0"),
                         "SAVEPOINT " \o QuoteWord("transaction0")>>

\* C20: while the f of a Core.Transaction call that opened a handle runs,
\* the context it was given carries that handle for the group: TXFromCtx on
\* it returns the handle given to f.
C20_OwnerContextCarriesHandle ==
    \A t \in Procs : \A i \in 1..Len(stack[t]) :
        stack[t][i].via = "owner" =>
            Lookup(World, stack[t][i].ctx, txs[stack[t][i].h].db.group)
                = stack[t][i].h

\* C21: TXFromCtx(ctx, group) that finds a handle leaves that handle with
\* ctx as its stored context and changes nothing else: no other field of
\* it, no other handle, no *sql.Tx, no statement; a lookup that finds none
\* changes nothing.  After tx.Transaction called with a context that carries
\* the handle has returned, the handle's stored context is that context.
C21_LookupRepoints ==
    [][/\ call'.op = "TXFromCtx" =>
             /\ call'.bound = Value(call.ctx,
                                    transactionKeyForContext(call'.group))
             /\ txs' = IF call'.bound = 0 THEN txs
                       ELSE [txs EXCEPT ![call'.bound].ctx = call.ctx]
             /\ raw' = raw /\ trace' = trace /\ idGen' = idGen
       /\ (call'.op = "TX.Transaction" /\ ops' = ops + 1
             /\ call'.bound = call'.h) =>
             txs'[call'.h].ctx = call.ctx]_vars

\* tx.Transaction ran f with a context derived from the one the handle had
\* stored, and has returned: the handle has the derived context.
W_C21 ==
    /\ call.op = "TX.Transaction" /\ call.arg = "derived"
    /\ txs[call.h].ctx = call.ctx /\ Len(call.ctx) >= 2
    /\ txs[call.h].transactionCount = 0 /\ ~raw[call.h].done

\* A lookup found a handle whose stored context is now the lookup context.
W_C21_Lookup ==
    /\ call.op = "TXFromCtx" /\ call.bound # 0
    /\ txs[call.bound].ctx = call.ctx /\ call.ctx # Background
    /\ call.ctx # Injected(txs[call.bound].db.group, call.bound)

\* C22: a Transaction call on a handle that is given or found (tx.Transaction,
\* or Core.Transaction with the handle in its context), whose f and the calls
\* nested in it use the handle only for statements and Transaction calls,
\* returns with the nesting counter at the value it had when the call was
\* made: when SAVEPOINT fails, when f returns nil or an error or panics, and
\* when the RELEASE SAVEPOINT or ROLLBACK TO SAVEPOINT of the closure fails.
C22_NestedCallRestoresCounter ==
    \A t \in Procs :
        LET r == ret[t]
        IN  (r.valid /\ r.via \in {"tx", "delegate"} /\ (r.ran => r.plain)
                /\ call.h = r.h
                /\ \/ r.ran /\ call.op = "return"
                   \/ /\ ~r.ran /\ ~call.err.nil
                      /\ call.op \in {"TX.Transaction", "Core.Transaction"}) =>
               /\ r.exit = r.entry
               /\ txs[r.h].transactionCount = r.entry

\* The RELEASE SAVEPOINT of a nested call failed at counter 1 and the call
\* returned that error with the counter back at 0.
W_C22 ==
    /\ ret[1].valid /\ ret[1].via = "tx" /\ ret[1].ran /\ ret[1].plain
    /\ call.op = "return" /\ call.h = ret[1].h
    /\ ret[1].fnKind = "nil" /\ ~ret[1].finErr.nil /\ ret[1].finErr # ErrTxDone
    /\ ret[1].err = ret[1].finErr
    /\ trace[Len(trace)].op = "RELEASE SAVEPOINT"
    /\ ret[1].entry = 0 /\ txs[ret[1].h].transactionCount = 0

\* The same with a failing ROLLBACK TO SAVEPOINT two levels down.
W_C22_Rollback ==
    /\ ret[1].valid /\ ret[1].via \in {"tx", "delegate"} /\ ret[1].ran
    /\ ret[1].plain /\ call.op = "return" /\ call.h = ret[1].h
    /\ ret[1].fnKind # "nil" /\ ~ret[1].finErr.nil
    /\ trace[Len(trace)].op = "ROLLBACK TO SAVEPOINT"
    /\ ret[1].entry = 1 /\ txs[ret[1].h].transactionCount = 1

\* A nested call returned the error of its failing SAVEPOINT without
\* running f, the counter as it was.
W_C22_Early ==
    /\ ret[1].valid /\ ret[1].via = "tx" /\ ~ret[1].ran
    /\ call.op = "TX.Transaction" /\ call.h = ret[1].h
    /\ ~call.err.nil /\ call.err # ErrTxDone
    /\ ret[1].entry = 1 /\ txs[ret[1].h].transactionCount = 1

\* The statements of handle r.h issued while the f of call r ran.
FnPart(r) ==
    SelectSeq(SubSeq(trace, r.start, r.finStart - 1), LAMBDA e : e.h = r.h)

\* The save points of tx.Begin in s that no tx.Commit / tx.Rollback has ended.
Unmatched(s) ==
    Len(SelectSeq(s, LAMBDA e : AutoPoint(e) /\ e.op = "SAVEPOINT" /\ e.err.nil))
      - Len(SelectSeq(s, LAMBDA e : AutoPoint(e) /\ e.op # "SAVEPOINT"))

\* What C23 says of the returned owner call r, s being the statements of
\* its f on the handle, open the save points f left open and fin the
\* statement of the closure.
MisledFinalizer(r, s, open, fin) ==
    /\ open > 0 =>
          /\ fin.op = (IF r.calls = <<"commit">> THEN "RELEASE SAVEPOINT"
                       ELSE "ROLLBACK TO SAVEPOINT")
          /\ fin.h = r.h
          /\ ~raw[r.h].done
          /\ raw[r.h].commits + raw[r.h].rollbacks = 0
          /\ txs[r.h].transactionCount = open - 1
    /\ (\E i \in 1..Len(s) : s[i].op \in {"COMMIT", "ROLLBACK"}) =>
          /\ fin.op = (IF r.calls = <<"commit">> THEN "COMMIT" ELSE "ROLLBACK")
          /\ fin.h = r.h
          /\ fin.done
          /\ fin.err = ErrTxDone
          /\ r.err = ErrTxDone
          /\ raw[r.h].commits + raw[r.h].rollbacks >= 2

\* C23: when the f of a Core.Transaction call that opened the handle returns
\* with a tx.Begin of its own not ended, the one statement of the closure is
\* RELEASE SAVEPOINT (the closure commits) or ROLLBACK TO SAVEPOINT (it rolls
\* back), not COMMIT or ROLLBACK, and the call returns with the *sql.Tx not finished; when f has
\* called tx.Commit / tx.Rollback at counter 0 itself, the closure calls
\* Commit / Rollback of the finished *sql.Tx once more.
C23_UnbalancedFnMisleadsFinalizer ==
    \A t \in Procs :
        (ret[t].valid /\ ret[t].via = "owner" /\ ret[t].ran
            /\ call.op = "return" /\ call.h = ret[t].h) =>
           /\ ret[t].finStart = ret[t].stop
           /\ MisledFinalizer(ret[t], FnPart(ret[t]), Unmatched(FnPart(ret[t])),
                              trace[ret[t].finStart])

\* f called tx.Begin and returned nil: the owner call issued RELEASE
\* SAVEPOINT and returned nil with the *sql.Tx open.
W_C23 ==
    /\ ret[1].valid /\ ret[1].via = "owner" /\ ret[1].ran
    /\ call.op = "return" /\ call.h = ret[1].h /\ stack[1] = << >>
    /\ Unmatched(FnPart(ret[1])) = 1 /\ ret[1].fnKind = "nil"
    /\ ret[1].err.nil
    /\ trace[Len(trace)].op = "RELEASE SAVEPOINT"
    /\ ~raw[ret[1].h].done

\* f called tx.Commit at counter 0 and returned an error: the closure called
\* Rollback on the committed *sql.Tx.
W_C23_Twice ==
    /\ ret[1].valid /\ ret[1].via = "owner" /\ ret[1].ran
    /\ call.op = "return" /\ call.h = ret[1].h /\ stack[1] = << >>
    /\ \E i \in 1..Len(FnPart(ret[1])) :
          FnPart(ret[1])[i].op = "COMMIT" /\ FnPart(ret[1])[i].err.nil
    /\ trace[Len(trace)].op = "ROLLBACK"
    /\ trace[Len(trace)].err = ErrTxDone
    /\ raw[ret[1].h].commits = 1 /\ raw[ret[1].h].rollbacks = 1

====
